---- MODULE Spec2Model ----
(***************************************************************************)
(* A model of rational_geometry's FixedRational<SignedIntT, kDenominator,  *)
(* kDoThrowOnInexact>, of the partial division helpers it is built on, and *)
(* of unrepresentable_operation_error.                                     *)
(*                                                                         *)
(* One FixedRational object (its numerator_) is the program's mutable      *)
(* state; every operator of the class is an action whose outcome (the      *)
(* value returned, or the exception thrown) is recorded in `result` and    *)
(* `error`.  Integer division by zero is undefined behaviour in C++: the   *)
(* helpers report it as "undefined" and the calling action resolves it to  *)
(* any of the outcomes a build can produce (a trap, or a garbage value).   *)
(***************************************************************************)
EXTENDS Integers, Sequences, FiniteSets, TLC

VARIABLES
  kDenominator,         \* template argument: the fixed denominator
  kDoThrowOnInexact,    \* template argument: throw instead of rounding
  SignedIntT,           \* template argument: the integer type, as its width
  kSkipOverflowProtections, \* RATIONAL_GEOMETRY_SKIP_OVERFLOW_PROTECTIONS
  numerator_,           \* FixedRational::numerator_ of the object under test
  result,               \* what the last operation did
  error,                \* the unrepresentable_operation_error last constructed
  running_accumulation, \* the caller's IntT& handed to accumulate_fix_factor
  constructed_with,     \* history: numerator_ the object was constructed with
  net_increments,       \* history: (#increments - #decrements) applied to it
  initial_accumulation, \* history: running_accumulation before any fold
  folded,               \* history: the fix factors folded so far, in order
  frames,               \* the activation records of gcd, innermost last
  direction,            \* a Direction: the std::array it derives from
  constructed_from,     \* history: the values the Direction was made from
  pd_top_ints,          \* the numerators last handed to partial_division
  pd_bottom_int,        \* the divisor last handed to partial_division
  pd_returned,          \* the PartialDivisionResult it returned
  left_range            \* history: a value of the last call left IntT's range

arithVars == <<numerator_, constructed_with, net_increments>>
errorVars == <<running_accumulation, initial_accumulation, folded>>
typeVars  == <<kDenominator, kDoThrowOnInexact, SignedIntT,
               kSkipOverflowProtections>>
partialVars == <<pd_top_ints, pd_bottom_int, pd_returned>>
otherVars == <<frames, direction, constructed_from, partialVars, left_range>>
vars == <<kDenominator, kDoThrowOnInexact, SignedIntT,
          kSkipOverflowProtections, numerator_, result,
          error, running_accumulation, constructed_with, net_increments,
          initial_accumulation, folded, frames, direction,
          constructed_from, pd_top_ints, pd_bottom_int, pd_returned,
          left_range>>

----------------------------------------------------------------------------
\* Bounds of the model.

\* numerators of the objects and temporaries handed to the operators
MaxNumerator == 8
\* plain integer operands (and fraction constructor arguments)
MaxInt == 4
\* calls of accumulate_fix_factor in one run
MaxFolds == 2

Numerators == (-MaxNumerator)..MaxNumerator
Ints == (-MaxInt)..MaxInt

\* The instantiations FixedRational<int, 4>, <int, 6> and <int, 12>.
Denominators == {4, 6, 12}

\* The integer types of the instantiations, as their widths in bits: int8_t
\* and int.  The numerators and operands of Spec are far inside the range
\* of int, so that its arithmetic is that of the integers.
kInt8Bits == 8
kIntBits == 32
IntTypes == {kInt8Bits, kIntBits}

\* What a garbage integer left by undefined behaviour may be.
GarbageInts == {-1, 0, 1}

----------------------------------------------------------------------------
\* C++ integer arithmetic: / truncates toward zero, % takes the dividend's sign.

CDiv(a, b) ==
  LET q == (IF a >= 0 THEN a ELSE -a) \div (IF b >= 0 THEN b ELSE -b)
  IN  IF (a < 0) = (b < 0) THEN q ELSE -q

CRem(a, b) == a - b * CDiv(a, b)

----------------------------------------------------------------------------
\* common_factor.hpp

abs(value) == IF value >= 0 THEN value ELSE -value

RECURSIVE gcd(_, _)
gcd(a, b) == abs(IF 0 = b THEN a ELSE gcd(b, CRem(a, b)))

\* lcm is declared by a revision of common_factor.hpp that is not in the
\* sources at hand; the specification gives abs(a*b)/gcd(a,b), lcm(a,0) = 0.
lcm(a, b) == IF a = 0 \/ b = 0 THEN 0 ELSE CDiv(abs(a * b), gcd(a, b))

----------------------------------------------------------------------------
\* FixedRational.hpp: helper functions

\* A PartialDivisionResult; `defined` is FALSE when computing it divided by
\* zero.
PartialDivisionResult(partial, remaining) ==
  [partial_result_ |-> partial, remaining_divisor_ |-> remaining,
   defined |-> TRUE]

UndefinedDivision ==
  [partial_result_ |-> 0, remaining_divisor_ |-> 0, defined |-> FALSE]

partial_division(top_int, bottom_int) ==
  LET common_factor == gcd(top_int, bottom_int)
  IN  IF common_factor = 0
        THEN UndefinedDivision
        ELSE PartialDivisionResult(CDiv(top_int, common_factor),
                                   CDiv(bottom_int, common_factor))

\* Faulty variant: the lambda without its `partial_result_ *= so_far.partial_result_`
partial_division_step_uncarried(so_far, current_numerator) ==
  IF ~so_far.defined
    THEN UndefinedDivision
    ELSE partial_division(current_numerator, so_far.remaining_divisor_)

\* The lambda std::accumulate folds with.
partial_division_step(so_far, current_numerator) ==
  IF ~so_far.defined
    THEN UndefinedDivision
    ELSE LET current_result ==
               partial_division(current_numerator, so_far.remaining_divisor_)
         IN  IF ~current_result.defined
               THEN UndefinedDivision
               ELSE PartialDivisionResult(
                      current_result.partial_result_ * so_far.partial_result_,
                      current_result.remaining_divisor_)

RECURSIVE accumulate(_, _)
accumulate(top_ints, so_far) ==
  IF top_ints = <<>>
    THEN so_far
    ELSE accumulate(Tail(top_ints),
                    partial_division_step(so_far, Head(top_ints)))

\* partial_division(const std::vector<IntT>&, IntT), overflow protections on.
partial_division_seq(top_ints, bottom_int) ==
  accumulate(top_ints, PartialDivisionResult(1, bottom_int))

----------------------------------------------------------------------------
\* Outcomes of a call.

NoError ==
  [thrown |-> FALSE, operation_numerator |-> 0, operation_divisor |-> 0,
   minimum_fix_factor_ |-> 0]

Returned(v) ==
  [status |-> "returned", value |-> v, second |-> 0, truth |-> FALSE,
   error |-> NoError]

ReturnedPair(first, second) ==
  [status |-> "returned", value |-> first, second |-> second,
   truth |-> FALSE, error |-> NoError]

ReturnedBool(t) ==
  [status |-> "returned", value |-> 0, second |-> 0, truth |-> t,
   error |-> NoError]

Threw(e) ==
  [status |-> "threw", value |-> 0, second |-> 0, truth |-> FALSE,
   error |-> e]

Crashed ==
  [status |-> "crashed", value |-> 0, second |-> 0, truth |-> FALSE,
   error |-> NoError]

\* The call divided by zero: an integer result, or a bool, is then garbage.
UndefinedInt ==
  [status |-> "undefined_int", value |-> 0, second |-> 0, truth |-> FALSE,
   error |-> NoError]

UndefinedBool ==
  [status |-> "undefined_bool", value |-> 0, second |-> 0, truth |-> FALSE,
   error |-> NoError]

\* The constructor of the exception divided by zero: its fix factor is garbage.
UndefinedError(operation_numerator, operation_divisor) ==
  [status |-> "undefined_error", value |-> 0, second |-> 0, truth |-> FALSE,
   error |-> [thrown |-> TRUE,
              operation_numerator |-> operation_numerator,
              operation_divisor |-> operation_divisor,
              minimum_fix_factor_ |-> 0]]

\* What the build may do with an outcome: a defined one is what it is, an
\* undefined one traps (SIGFPE) or carries on with a garbage value.
Resolve(outcome) ==
  CASE outcome.status = "undefined_int" ->
         {Crashed} \cup {Returned(v) : v \in GarbageInts}
    [] outcome.status = "undefined_bool" ->
         {Crashed} \cup {ReturnedBool(t) : t \in BOOLEAN}
    [] outcome.status = "undefined_error" ->
         {Crashed} \cup
         {Threw([outcome.error EXCEPT !.minimum_fix_factor_ = v]) :
            v \in GarbageInts}
    [] OTHER -> {outcome}

----------------------------------------------------------------------------
\* unrepresentable_operation_error.hpp

\* The constructors: minimum_fix_factor_ is set once, from the two integers.
\* (When both are 0 the gcd is 0 and the division is undefined.)
ErrorDefined(operation_numerator, operation_divisor) ==
  gcd(operation_numerator, operation_divisor) # 0

unrepresentable_operation_error(operation_numerator, operation_divisor) ==
  [thrown |-> TRUE,
   operation_numerator |-> operation_numerator,
   operation_divisor |-> operation_divisor,
   minimum_fix_factor_ |->
     CDiv(operation_divisor, gcd(operation_numerator, operation_divisor))]

get_minimum_fix_factor(e) == e.minimum_fix_factor_

\* throw unrepresentable_operation_error<IntT>{what, numerator, divisor}
throw_error(operation_numerator, operation_divisor) ==
  IF ErrorDefined(operation_numerator, operation_divisor)
    THEN Threw(unrepresentable_operation_error(
                 operation_numerator, operation_divisor))
    ELSE UndefinedError(operation_numerator, operation_divisor)

\* accumulate_fix_factor: the value it leaves in running_accumulation
accumulate_fix_factor(e, running) ==
  LET reset == IF running <= 0 THEN 1 ELSE running
  IN  lcm(reset, get_minimum_fix_factor(e))

----------------------------------------------------------------------------
\* FixedRational.hpp: the class, as functions of the template arguments
\* (D is kDenominator, doThrow is kDoThrowOnInexact) and of the numerators.

\* Faulty variant: full_division rounding toward minus infinity
full_division_floored(pd) ==
  IF pd.remaining_divisor_ = 0
    THEN UndefinedInt
    ELSE LET q == CDiv(pd.partial_result_, pd.remaining_divisor_)
         IN  IF q * pd.remaining_divisor_ # pd.partial_result_
                /\ (pd.partial_result_ < 0) # (pd.remaining_divisor_ < 0)
               THEN Returned(q - 1)
               ELSE Returned(q)

\* PartialDivisionResult::full_division
full_division(pd) ==
  IF pd.remaining_divisor_ = 0
    THEN UndefinedInt
    ELSE Returned(CDiv(pd.partial_result_, pd.remaining_divisor_))

\* The tail shared by FixedRational(IntT, IntT), operator* and operator/:
\* throw when the division is inexact and the type throws, else divide.
ThrowOrDivide(doThrow, pd) ==
  IF ~pd.defined
    THEN UndefinedInt
    ELSE IF doThrow /\ pd.remaining_divisor_ # 1
      THEN throw_error(pd.partial_result_, pd.remaining_divisor_)
      ELSE full_division(pd)

\* FixedRational(), FixedRational(IntT value), FixedRational(IntT, IntT)
FixedRational_default == Returned(0)

FixedRational_int(D, value) == Returned(value * D)

FixedRational_fraction(D, doThrow, numerator, denominator) ==
  IF denominator = D
    THEN Returned(numerator)
    ELSE ThrowOrDivide(doThrow,
           partial_division_seq(<<numerator, D>>, denominator))

\* Faulty variant: as_simplified() returning the stored fraction as it is
as_simplified_unreduced(D, n) == ReturnedPair(n, D)

\* as_simplified()
as_simplified(D, n) ==
  LET ret == partial_division(n, D)
  IN  IF ~ret.defined THEN UndefinedInt
      ELSE ReturnedPair(ret.partial_result_, ret.remaining_divisor_)

\* operator==
eq_rat_int(D, l_num, r_op) == ReturnedBool(l_num = r_op * D)
eq_int_rat(D, l_op, r_num) == ReturnedBool(l_op * D = r_num)
eq_rat_rat(l_num, r_num) == ReturnedBool(l_num = r_num)

\* !(x): the negation of a comparison that returned
Not(outcome) ==
  IF outcome.status = "returned" THEN ReturnedBool(~outcome.truth)
  ELSE outcome

\* operator<, overflow protections on
less_rat_int(D, l_num, r_op) ==
  IF CDiv(l_num, D) < r_op THEN ReturnedBool(TRUE)
  ELSE IF CDiv(l_num, D) > r_op THEN ReturnedBool(FALSE)
  ELSE LET ret == partial_division_seq(<<r_op, D>>, l_num)
       IN  IF ~ret.defined THEN UndefinedBool
           ELSE ReturnedBool(ret.remaining_divisor_ < ret.partial_result_)

less_int_rat(D, l_op, r_num) ==
  IF l_op < CDiv(r_num, D) THEN ReturnedBool(TRUE)
  ELSE IF l_op > CDiv(r_num, D) THEN ReturnedBool(FALSE)
  ELSE LET ret == partial_division_seq(<<l_op, D>>, r_num)
       IN  IF ~ret.defined THEN UndefinedBool
           ELSE ReturnedBool(ret.partial_result_ < ret.remaining_divisor_)

less_rat_rat(l_num, r_num) == ReturnedBool(l_num < r_num)

\* operator>, operator<=, operator>=: every one is written with operator<
greater_rat_int(D, l_num, r_op) == less_int_rat(D, r_op, l_num)
greater_int_rat(D, l_op, r_num) == less_rat_int(D, r_num, l_op)
greater_rat_rat(l_num, r_num) == less_rat_rat(r_num, l_num)

less_equal_rat_int(D, l_num, r_op) == Not(less_int_rat(D, r_op, l_num))
less_equal_int_rat(D, l_op, r_num) == Not(less_rat_int(D, r_num, l_op))
less_equal_rat_rat(l_num, r_num) == Not(less_rat_rat(r_num, l_num))

greater_equal_rat_int(D, l_num, r_op) == Not(less_rat_int(D, l_num, r_op))
greater_equal_int_rat(D, l_op, r_num) == Not(less_int_rat(D, l_op, r_num))
greater_equal_rat_rat(l_num, r_num) == Not(less_rat_rat(l_num, r_num))

\* operator*
mul_rat_int(l_num, r_op) == Returned(l_num * r_op)
mul_int_rat(l_op, r_num) == Returned(l_op * r_num)
mul_rat_rat(D, doThrow, l_num, r_num) ==
  ThrowOrDivide(doThrow, partial_division_seq(<<l_num, r_num>>, D))

\* operator/
div_rat_int(doThrow, l_num, r_op) ==
  ThrowOrDivide(doThrow, partial_division(l_num, r_op))
div_int_rat(D, doThrow, l_op, r_num) ==
  ThrowOrDivide(doThrow, partial_division_seq(<<l_op, D, D>>, r_num))
div_rat_rat(D, doThrow, l_num, r_num) ==
  ThrowOrDivide(doThrow, partial_division_seq(<<l_num, D>>, r_num))

\* Faulty variant: operator% with a remainder of the divisor's sign
mod_rat_rat_floored(l_num, r_num) ==
  IF r_num = 0 THEN UndefinedInt
  ELSE Returned(l_num - r_num * ((l_num * (IF r_num < 0 THEN -1 ELSE 1))
                                   \div abs(r_num))
                               * (IF r_num < 0 THEN -1 ELSE 1))

\* operator%
mod_rat_rat(l_num, r_num) ==
  IF r_num = 0 THEN UndefinedInt ELSE Returned(CRem(l_num, r_num))

\* operator+, operator-
add_rat_int(D, l_num, r_op) == Returned(l_num + r_op * D)
add_int_rat(D, l_op, r_num) == Returned(l_op * D + r_num)
add_rat_rat(l_num, r_num) == Returned(l_num + r_num)
sub_rat_int(D, l_num, r_op) == Returned(l_num - r_op * D)
\* Faulty variant: integer - rational with the operands exchanged
sub_int_rat_swapped(D, l_op, r_num) == Returned(r_num - l_op * D)
sub_int_rat(D, l_op, r_num) == Returned(l_op * D - r_num)
sub_rat_rat(l_num, r_num) == Returned(l_num - r_num)

----------------------------------------------------------------------------
\* The state machine: one call per step.

NoResult ==
  [op |-> "none", l |-> 0, r |-> 0, status |-> "none", value |-> 0,
   second |-> 0, truth |-> FALSE]

\* A call op(l, r) that leaves the object alone: its outcome reaches the
\* caller, who looks at it (EndStatement) before the next call.  Nothing
\* runs after a trap.
Call(op, l, r, outcome) ==
  /\ result.status = "none"
  /\ \E o \in Resolve(outcome) :
       /\ result' = [op |-> op, l |-> l, r |-> r, status |-> o.status,
                     value |-> o.value, second |-> o.second,
                     truth |-> o.truth]
       /\ error' = o.error
  /\ UNCHANGED <<arithVars, errorVars, typeVars, otherVars>>

Init ==
  /\ kDenominator \in Denominators
  /\ kDoThrowOnInexact \in BOOLEAN
  /\ SignedIntT = kIntBits
  /\ numerator_ \in Numerators
  /\ constructed_with = numerator_
  /\ net_increments = 0
  /\ result = NoResult
  /\ error = NoError
  /\ running_accumulation = 1
  /\ initial_accumulation = 1
  /\ folded = <<>>
  /\ frames = <<>>
  /\ direction = <<0, 0, 0>>
  /\ constructed_from = <<>>
  /\ pd_top_ints = <<>>
  /\ pd_bottom_int = 1
  /\ pd_returned = PartialDivisionResult(1, 1)
  /\ kSkipOverflowProtections = FALSE
  /\ left_range = FALSE

\* Constructors: each makes a temporary, whose numerator_ is the value.
ConstructDefault == Call("FixedRational()", 0, 0, FixedRational_default)

ConstructInt ==
  \E value \in Ints :
    Call("FixedRational(v)", value, 0, FixedRational_int(kDenominator, value))

ConstructFraction ==
  \E numerator \in Ints, denominator \in Ints :
    Call("FixedRational(n,d)", numerator, denominator,
         FixedRational_fraction(kDenominator, kDoThrowOnInexact,
                                numerator, denominator))

\* Accessors
numerator == Call("numerator", numerator_, 0, Returned(numerator_))

denominator == Call("denominator", numerator_, 0, Returned(kDenominator))

AsSimplified ==
  Call("as_simplified", numerator_, 0, as_simplified(kDenominator, numerator_))

\* Member operators.  ++ and -- are the only ones that write numerator_.
Step(op, delta, returned) ==
  /\ result.status = "none"
  /\ numerator_ + delta \in Numerators
  /\ numerator_' = numerator_ + delta
  /\ net_increments' = net_increments + (IF delta > 0 THEN 1 ELSE -1)
  /\ result' = [op |-> op, l |-> numerator_, r |-> 0, status |-> "returned",
                value |-> returned, second |-> 0, truth |-> FALSE]
  /\ error' = NoError
  /\ UNCHANGED <<constructed_with, errorVars, typeVars, otherVars>>

PreIncrement ==
  Step("++x", kDenominator, numerator_ + kDenominator)

\* Faulty variant: x++ returning the incremented value
PostIncrementReturningNew ==
  Step("x++", kDenominator, numerator_ + kDenominator)

PostIncrement ==
  Step("x++", kDenominator, numerator_)

PreDecrement ==
  Step("--x", -kDenominator, numerator_ - kDenominator)

PostDecrement ==
  Step("x--", -kDenominator, numerator_)

\* Faulty variant: unary minus negating the object itself
NegateInPlace ==
  /\ result.status = "none"
  /\ numerator_' = -numerator_
  /\ result' = [NoResult EXCEPT !.op = "-x", !.l = numerator_,
                                !.status = "returned", !.value = -numerator_]
  /\ error' = NoError
  /\ UNCHANGED <<constructed_with, net_increments, errorVars, typeVars,
                 otherVars>>

Negate == Call("-x", numerator_, 0, Returned(-numerator_))

\* Comparison
EqRatInt ==
  \E r_op \in Ints :
    Call("r==i", numerator_, r_op, eq_rat_int(kDenominator, numerator_, r_op))
EqIntRat ==
  \E l_op \in Ints :
    Call("i==r", l_op, numerator_, eq_int_rat(kDenominator, l_op, numerator_))
EqRatRat ==
  \E r_num \in Numerators :
    Call("r==r", numerator_, r_num, eq_rat_rat(numerator_, r_num))

NeRatInt ==
  \E r_op \in Ints :
    Call("r!=i", numerator_, r_op,
         Not(eq_rat_int(kDenominator, numerator_, r_op)))
NeIntRat ==
  \E l_op \in Ints :
    Call("i!=r", l_op, numerator_,
         Not(eq_int_rat(kDenominator, l_op, numerator_)))
NeRatRat ==
  \E r_num \in Numerators :
    Call("r!=r", numerator_, r_num, Not(eq_rat_rat(numerator_, r_num)))

LessRatInt ==
  \E r_op \in Ints :
    Call("r<i", numerator_, r_op, less_rat_int(kDenominator, numerator_, r_op))
LessIntRat ==
  \E l_op \in Ints :
    Call("i<r", l_op, numerator_, less_int_rat(kDenominator, l_op, numerator_))
LessRatRat ==
  \E r_num \in Numerators :
    Call("r<r", numerator_, r_num, less_rat_rat(numerator_, r_num))

GreaterRatInt ==
  \E r_op \in Ints :
    Call("r>i", numerator_, r_op,
         greater_rat_int(kDenominator, numerator_, r_op))
GreaterIntRat ==
  \E l_op \in Ints :
    Call("i>r", l_op, numerator_,
         greater_int_rat(kDenominator, l_op, numerator_))
GreaterRatRat ==
  \E r_num \in Numerators :
    Call("r>r", numerator_, r_num, greater_rat_rat(numerator_, r_num))

LessEqualRatInt ==
  \E r_op \in Ints :
    Call("r<=i", numerator_, r_op,
         less_equal_rat_int(kDenominator, numerator_, r_op))
LessEqualIntRat ==
  \E l_op \in Ints :
    Call("i<=r", l_op, numerator_,
         less_equal_int_rat(kDenominator, l_op, numerator_))
LessEqualRatRat ==
  \E r_num \in Numerators :
    Call("r<=r", numerator_, r_num, less_equal_rat_rat(numerator_, r_num))

GreaterEqualRatInt ==
  \E r_op \in Ints :
    Call("r>=i", numerator_, r_op,
         greater_equal_rat_int(kDenominator, numerator_, r_op))
GreaterEqualIntRat ==
  \E l_op \in Ints :
    Call("i>=r", l_op, numerator_,
         greater_equal_int_rat(kDenominator, l_op, numerator_))
GreaterEqualRatRat ==
  \E r_num \in Numerators :
    Call("r>=r", numerator_, r_num, greater_equal_rat_rat(numerator_, r_num))

\* Arithmetic
MulRatInt ==
  \E r_op \in Ints :
    Call("r*i", numerator_, r_op, mul_rat_int(numerator_, r_op))
MulIntRat ==
  \E l_op \in Ints :
    Call("i*r", l_op, numerator_, mul_int_rat(l_op, numerator_))
MulRatRat ==
  \E r_num \in Numerators :
    Call("r*r", numerator_, r_num,
         mul_rat_rat(kDenominator, kDoThrowOnInexact, numerator_, r_num))

DivRatInt ==
  \E r_op \in Ints :
    Call("r/i", numerator_, r_op,
         div_rat_int(kDoThrowOnInexact, numerator_, r_op))
DivIntRat ==
  \E l_op \in Ints :
    Call("i/r", l_op, numerator_,
         div_int_rat(kDenominator, kDoThrowOnInexact, l_op, numerator_))
DivRatRat ==
  \E r_num \in Numerators :
    Call("r/r", numerator_, r_num,
         div_rat_rat(kDenominator, kDoThrowOnInexact, numerator_, r_num))

ModRatRat ==
  \E r_num \in Numerators :
    Call("r%r", numerator_, r_num, mod_rat_rat(numerator_, r_num))

AddRatInt ==
  \E r_op \in Ints :
    Call("r+i", numerator_, r_op, add_rat_int(kDenominator, numerator_, r_op))
AddIntRat ==
  \E l_op \in Ints :
    Call("i+r", l_op, numerator_, add_int_rat(kDenominator, l_op, numerator_))
AddRatRat ==
  \E r_num \in Numerators :
    Call("r+r", numerator_, r_num, add_rat_rat(numerator_, r_num))

SubRatInt ==
  \E r_op \in Ints :
    Call("r-i", numerator_, r_op, sub_rat_int(kDenominator, numerator_, r_op))
SubIntRat ==
  \E l_op \in Ints :
    Call("i-r", l_op, numerator_, sub_int_rat(kDenominator, l_op, numerator_))
SubRatRat ==
  \E r_num \in Numerators :
    Call("r-r", numerator_, r_num, sub_rat_rat(numerator_, r_num))

\* The end of the full expression, or of the catch block: the temporary
\* returned, or the exception caught, is destroyed.
EndStatement ==
  /\ result.status \in {"returned", "threw"}
  /\ result' = NoResult
  /\ error' = NoError
  /\ UNCHANGED <<arithVars, errorVars, typeVars, otherVars>>

Next ==
  \/ EndStatement
  \/ ConstructDefault \/ ConstructInt \/ ConstructFraction
  \/ numerator \/ denominator \/ AsSimplified
  \/ PreIncrement \/ PostIncrement \/ PreDecrement \/ PostDecrement
  \/ Negate
  \/ EqRatInt \/ EqIntRat \/ EqRatRat
  \/ NeRatInt \/ NeIntRat \/ NeRatRat
  \/ LessRatInt \/ LessIntRat \/ LessRatRat
  \/ GreaterRatInt \/ GreaterIntRat \/ GreaterRatRat
  \/ LessEqualRatInt \/ LessEqualIntRat \/ LessEqualRatRat
  \/ GreaterEqualRatInt \/ GreaterEqualIntRat \/ GreaterEqualRatRat
  \/ MulRatInt \/ MulIntRat \/ MulRatRat
  \/ DivRatInt \/ DivIntRat \/ DivRatRat
  \/ ModRatRat
  \/ AddRatInt \/ AddIntRat \/ AddRatRat
  \/ SubRatInt \/ SubIntRat \/ SubRatRat

Spec == Init /\ [][Next]_vars

----------------------------------------------------------------------------
\* The caller that sweeps a workload for the fix factor it needs: it throws
\* or provokes exceptions and folds each one caught into an accumulator.

\* FixedRational<int, 12>, throwing, the object holding the value 1.
SweepDenominator == 12

\* what the accumulator may hold before the first fold
StartAccumulations == {0, 1, 2}

\* the numerators the sweep's own exceptions are made of
ErrorNumerators == {0, 1, 6, SweepDenominator}

InitError ==
  /\ kDenominator = SweepDenominator
  /\ kDoThrowOnInexact = TRUE
  /\ SignedIntT = kIntBits
  /\ numerator_ = SweepDenominator
  /\ constructed_with = numerator_
  /\ net_increments = 0
  /\ result = NoResult
  /\ error = NoError
  /\ initial_accumulation \in StartAccumulations
  /\ running_accumulation = initial_accumulation
  /\ folded = <<>>
  /\ frames = <<>>
  /\ direction = <<0, 0, 0>>
  /\ constructed_from = <<>>
  /\ pd_top_ints = <<>>
  /\ pd_bottom_int = 1
  /\ pd_returned = PartialDivisionResult(1, 1)
  /\ kSkipOverflowProtections = FALSE
  /\ left_range = FALSE

\* The sweep's own exceptions have a nonzero divisor, like those of the
\* tests; a zero one reaches the sweep only from a division it provokes.
ThrowError ==
  \E operation_numerator \in ErrorNumerators, operation_divisor \in Ints :
    /\ operation_divisor # 0
    /\ Call("throw", operation_numerator, operation_divisor,
            throw_error(operation_numerator, operation_divisor))

\* Faulty variant: accumulate_fix_factor also storing the accumulation in *this
AccumulateFixFactorIntoError ==
  /\ result.status = "threw"
  /\ Len(folded) < MaxFolds
  /\ running_accumulation' = accumulate_fix_factor(error, running_accumulation)
  /\ error' = [error EXCEPT !.minimum_fix_factor_ = running_accumulation']
  /\ folded' = Append(folded, get_minimum_fix_factor(error))
  /\ UNCHANGED <<result, initial_accumulation, arithVars, typeVars, otherVars>>

\* e.accumulate_fix_factor(running_accumulation) in the catch block
AccumulateFixFactor ==
  /\ result.status = "threw"
  /\ Len(folded) < MaxFolds
  /\ running_accumulation' = accumulate_fix_factor(error, running_accumulation)
  /\ folded' = Append(folded, get_minimum_fix_factor(error))
  /\ UNCHANGED <<result, error, initial_accumulation, arithVars, typeVars,
                 otherVars>>

NextError ==
  \/ EndStatement
  \/ ThrowError
  \/ DivRatInt
  \/ AccumulateFixFactor

SpecError == InitError /\ [][NextError]_vars

----------------------------------------------------------------------------
\* Properties.  They are stated with the mathematical notions (divisibility
\* by TLA+'s modulus, products instead of quotients), not with the
\* operators of the model.

Magnitude(x) == IF x < 0 THEN -x ELSE x

\* d divides n (d # 0)
Divides(d, n) == n % Magnitude(d) = 0

\* t is the quotient num/den rounded toward zero (den # 0)
IsTruncatedQuotient(t, num, den) ==
  /\ Magnitude(t) * Magnitude(den) <= Magnitude(num)
  /\ Magnitude(num) < (Magnitude(t) + 1) * Magnitude(den)
  /\ t > 0 => (num > 0) = (den > 0)
  /\ t < 0 => (num > 0) # (den > 0)

\* The scaled dividend and the divisor of the exact quotient the last
\* operation had to produce: its numerator is Dividend / Divisor.
Dividend ==
  CASE result.op = "r*r" -> result.l * result.r
    [] result.op = "r/r" -> result.l * kDenominator
    [] result.op = "r/i" -> result.l
    [] result.op = "i/r" -> result.l * kDenominator * kDenominator
    [] result.op = "FixedRational(n,d)" -> result.l * kDenominator
    [] OTHER -> 0

Divisor ==
  CASE result.op = "r*r" -> kDenominator
    [] result.op \in {"r/r", "r/i", "i/r", "FixedRational(n,d)"} -> result.r
    [] OTHER -> 1

DivisionOps == {"r/r", "r/i", "i/r"}

\* C1: in throwing mode a*b raises iff D does not divide p*q, and a product
\* that is returned has numerator exactly p*q/D.
C1_ProductExactOrRaised ==
  (result.op = "r*r" /\ kDoThrowOnInexact) =>
    /\ result.status \in {"returned", "threw"}
    /\ (result.status = "threw") <=>
         ~Divides(kDenominator, result.l * result.r)
    /\ result.status = "returned" =>
         result.value * kDenominator = result.l * result.r

\* C1 witness: an exact product of two values neither of which is an integer.
C1_Witness ==
  /\ result.op = "r*r" /\ kDoThrowOnInexact
  /\ result.status = "returned"
  /\ ~Divides(kDenominator, result.l) /\ ~Divides(kDenominator, result.r)
  /\ result.value # 0

\* C2: in throwing mode each division form raises iff the divisor does not
\* divide the scaled dividend (p*D for a/b, p for a/k, k*D*D for k/a), for a
\* nonzero divisor of either sign, and a quotient that is returned is exact.
C2_QuotientExactOrRaised ==
  (result.op \in DivisionOps /\ kDoThrowOnInexact /\ result.r # 0) =>
    /\ result.status \in {"returned", "threw"}
    /\ (result.status = "threw") <=> ~Divides(Divisor, Dividend)
    /\ result.status = "returned" => result.value * Divisor = Dividend

\* C3: in throwing mode FixedRational(n, d), d # 0, raises iff d # D and d
\* does not divide n*D (d of either sign); otherwise it stores n*D/d, which
\* is n itself when d = D.
C3_FractionExactOrRaised ==
  (result.op = "FixedRational(n,d)" /\ kDoThrowOnInexact /\ result.r # 0) =>
    /\ result.status \in {"returned", "threw"}
    /\ (result.status = "threw") <=>
         (result.r # kDenominator /\ ~Divides(result.r, Dividend))
    /\ result.status = "returned" => result.value * result.r = Dividend
    /\ result.r = kDenominator => result.value = result.l

\* The operation that raised, repeated on the same values at denominator
\* m * D, is exact.
ExactAtMultiple(m) ==
  LET D == m * kDenominator
      again ==
        CASE result.op = "r*r" ->
               mul_rat_rat(D, TRUE, result.l * m, result.r * m)
          [] result.op = "r/r" ->
               div_rat_rat(D, TRUE, result.l * m, result.r * m)
          [] result.op = "r/i" ->
               div_rat_int(TRUE, result.l * m, result.r)
          [] result.op = "i/r" ->
               div_int_rat(D, TRUE, result.l, result.r * m)
          [] OTHER ->
               FixedRational_fraction(D, TRUE, result.l, result.r)
  IN  again.status = "returned"

RaisingOps == {"r*r", "r/r", "r/i", "i/r", "FixedRational(n,d)"}

\* C4: the fix factor of every violation raised by the fraction constructor,
\* * or / is the least positive m for which the same operation is exact at
\* denominator m * D.
C4_FixFactorIsLeastRepair ==
  (result.op \in RaisingOps /\ result.status = "threw") =>
    LET m == get_minimum_fix_factor(error)
    IN  /\ m > 0
        /\ ExactAtMultiple(m)
        /\ \A j \in 1..(m - 1) : ~ExactAtMultiple(j)

\* C5: with kDoThrowOnInexact = false the fraction constructor, a*b and the
\* three divisions never raise for a nonzero divisor and return the exact
\* result truncated toward zero.
C5_TruncatesWithoutRaising ==
  (result.op \in RaisingOps /\ ~kDoThrowOnInexact /\ Divisor # 0) =>
    /\ result.status = "returned"
    /\ IsTruncatedQuotient(result.value, Dividend, Divisor)

\* C5 witness: a negative inexact quotient was rounded toward zero.
C5_Witness ==
  /\ result.op \in DivisionOps /\ ~kDoThrowOnInexact
  /\ result.status = "returned"
  /\ Divisor # 0 /\ ~Divides(Divisor, Dividend)
  /\ result.value < 0

\* The two operands of a comparison, both scaled by D.
LeftScaled ==
  IF result.op \in {"i<r", "i>r", "i<=r", "i>=r"}
    THEN result.l * kDenominator ELSE result.l

RightScaled ==
  IF result.op \in {"r<i", "r>i", "r<=i", "r>=i"}
    THEN result.r * kDenominator ELSE result.r

OrderingOps ==
  {"r<r", "r<i", "i<r", "r>r", "r>i", "i>r",
   "r<=r", "r<=i", "i<=r", "r>=r", "r>=i", "i>=r"}

\* C6: every ordering comparison returns the order of the true values:
\* n1 < n2 between rationals, n < k*D and k*D < n against an integer, and
\* >, <=, >= accordingly.
C6_OrderingIsTrueOrder ==
  result.op \in OrderingOps =>
    /\ result.status = "returned"
    /\ result.truth =
         CASE result.op \in {"r<r", "r<i", "i<r"} -> LeftScaled < RightScaled
           [] result.op \in {"r>r", "r>i", "i>r"} -> LeftScaled > RightScaled
           [] result.op \in {"r<=r", "r<=i", "i<=r"} ->
                LeftScaled <= RightScaled
           [] OTHER -> LeftScaled >= RightScaled

IncrementOps == {"++x", "x++", "--x", "x--"}

\* C9: only ++ and -- write numerator_: every other operator and accessor
\* leaves the object as it was, whether it returns or raises, and the
\* denominator never changes.
C9_OnlyIncrementsWrite ==
  [][/\ result'.op \notin IncrementOps => numerator_' = numerator_
     /\ kDenominator' = kDenominator]_vars

\* C9 witness: a division on the object raised and the object is intact.
C9_Witness ==
  /\ result.op = "r/r" /\ result.status = "threw"
  /\ numerator_ = result.l /\ numerator_ # 0
  /\ net_increments # 0

\* C10: ++ and -- move numerator_ by exactly +D and -D, the prefix forms
\* return the new value and the postfix forms the old one, so as many
\* decrements as increments restore the numerator.
C10_IncrementsMoveByDenominator ==
  /\ numerator_ = constructed_with + net_increments * kDenominator
  /\ net_increments = 0 => numerator_ = constructed_with
  /\ result.op = "++x" =>
       numerator_ = result.l + kDenominator /\ result.value = numerator_
  /\ result.op = "x++" =>
       numerator_ = result.l + kDenominator /\ result.value = result.l
  /\ result.op = "--x" =>
       numerator_ = result.l - kDenominator /\ result.value = numerator_
  /\ result.op = "x--" =>
       numerator_ = result.l - kDenominator /\ result.value = result.l

\* C10 witness: increments were undone by as many decrements.
C10_Witness ==
  /\ result.op \in {"--x", "x--"}
  /\ net_increments = 0
  /\ numerator_ = constructed_with

\* The greatest common divisor of a and b, not both 0, by its definition.
GreatestCommonDivisor(a, b) ==
  LET top == Magnitude(a) + Magnitude(b)
      Common(g) == Divides(g, a) /\ Divides(g, b)
  IN  CHOOSE g \in 1..top :
        Common(g) /\ \A h \in (g + 1)..top : ~Common(h)

\* C7: started at 1 (or at a value <= 0, which the first call replaces by
\* 1), the accumulator is after every call the least common multiple of the
\* fix factors folded so far: it is >= 1, every folded fix factor divides
\* it, and no smaller positive integer is such a multiple.
C7_AccumulatorIsLeastCommonMultiple ==
  (initial_accumulation <= 1 /\ folded # <<>>) =>
    /\ running_accumulation >= 1
    /\ \A i \in 1..Len(folded) :
         folded[i] # 0 /\ Divides(folded[i], running_accumulation)
    /\ \A n \in 1..(running_accumulation - 1) :
         \E i \in 1..Len(folded) : ~Divides(folded[i], n)

\* C8: the fix factor of an exception made from (numerator, divisor) is
\* divisor / gcd(numerator, divisor), and folding the exception into an
\* accumulator does not change the exception.
C8_FixFactorSetAtConstruction ==
  /\ [](error.thrown =>
          get_minimum_fix_factor(error)
            * GreatestCommonDivisor(error.operation_numerator,
                                    error.operation_divisor)
          = error.operation_divisor)
  /\ [][folded' # folded => error' = error]_vars

\* C8 witness: an exception whose two integers share a factor was folded
\* into an accumulator that moved to another value than the fix factor.
C8_Witness ==
  /\ error.thrown /\ result.op = "throw"
  /\ GreatestCommonDivisor(error.operation_numerator, error.operation_divisor)
       > 1
  /\ get_minimum_fix_factor(error) > 1
  /\ folded # <<>> /\ folded[Len(folded)] = get_minimum_fix_factor(error)
  /\ running_accumulation # get_minimum_fix_factor(error)

----------------------------------------------------------------------------
\* Addition, subtraction and the operators that are never inexact.

AdditiveOps == {"r+r", "r-r", "r+i", "i+r", "r-i", "i-r", "-x"}

\* C11: a+b and a-b have numerators p+q and p-q; a+k, k+a, a-k and k-a have
\* numerators p+k*D, k*D+p, p-k*D and k*D-p; -a has numerator -p; the
\* denominator of the instantiation is the operand's.
C11_SumsExactAtDenominator ==
  result.op \in AdditiveOps =>
    /\ result.status = "returned"
    /\ kDenominator \in Denominators
    /\ result.value =
         CASE result.op = "r+r" -> result.l + result.r
           [] result.op = "r-r" -> result.l - result.r
           [] result.op = "r+i" -> result.l + result.r * kDenominator
           [] result.op = "i+r" -> result.l * kDenominator + result.r
           [] result.op = "r-i" -> result.l - result.r * kDenominator
           [] result.op = "i-r" -> result.l * kDenominator - result.r
           [] OTHER -> -result.l

\* C11 witness: an integer minus a rational that is not an integer, with a
\* result that is not zero.
C11_Witness ==
  /\ result.op = "i-r" /\ result.status = "returned"
  /\ result.l # 0 /\ ~Divides(kDenominator, result.r)
  /\ result.value # 0 /\ result.value = result.l * kDenominator - result.r

NeverInexactOps ==
  {"r+r", "r-r", "r+i", "i+r", "r-i", "i-r", "-x",
   "++x", "x++", "--x", "x--", "r*i", "i*r", "r%r"}

\* r is the remainder of p by q (q # 0) as C++ truncates it: q divides
\* p - r, |r| < |q|, and r, when not 0, has the sign of p.
IsTruncatedRemainder(r, p, q) ==
  /\ Divides(q, p - r)
  /\ Magnitude(r) < Magnitude(q)
  /\ r # 0 => (r > 0) = (p > 0)

\* C12: in throwing mode +, -, unary -, ++, --, rational*integer,
\* integer*rational and % never raise; rational*integer has numerator p*k
\* and a % b (b # 0) has the truncated remainder of p by q as numerator.
C12_NeverInexactNeverRaise ==
  (result.op \in NeverInexactOps /\ kDoThrowOnInexact) =>
    /\ result.status # "threw"
    /\ ~error.thrown
    /\ result.op \in {"r*i", "i*r"} =>
         result.status = "returned" /\ result.value = result.l * result.r
    /\ (result.op = "r%r" /\ result.r # 0) =>
         /\ result.status = "returned"
         /\ IsTruncatedRemainder(result.value, result.l, result.r)

\* C12 witness: a negative value taken modulo a value that does not divide
\* it, in throwing mode: the remainder is negative.
C12_Witness ==
  /\ result.op = "r%r" /\ kDoThrowOnInexact
  /\ result.status = "returned"
  /\ result.l < 0 /\ result.r > 0 /\ result.value < 0

----------------------------------------------------------------------------
\* as_simplified

\* C13: as_simplified() of a value with numerator n returns (n/g, D/g) with
\* g the greatest common divisor of n and D: the components are coprime,
\* the second is positive, first/second = n/D, zero gives (0, 1), the
\* stored numerator is not reduced, and the value 2/4 gives (1, 2).
C13_SimplifiedIsLowestTerms ==
  result.op = "as_simplified" =>
    /\ result.status = "returned"
    /\ result.second > 0
    /\ result.value * kDenominator = result.l * result.second
    /\ GreatestCommonDivisor(result.value, result.second) = 1
    /\ LET g == GreatestCommonDivisor(result.l, kDenominator)
       IN  result.value * g = result.l /\ result.second * g = kDenominator
    /\ result.l = 0 => (result.value = 0 /\ result.second = 1)
    /\ numerator_ = result.l
    /\ result.l * 4 = 2 * kDenominator =>
         (result.value = 1 /\ result.second = 2)

\* C13 witness: a negative value that is not in lowest terms at D and is
\* not an integer was simplified.
C13_Witness ==
  /\ result.op = "as_simplified" /\ result.status = "returned"
  /\ result.value < 0
  /\ result.second > 1 /\ result.second < kDenominator
  /\ numerator_ # result.value

----------------------------------------------------------------------------
\* Conversion between instantiations.  The converting constructor delegates
\* to FixedRational(IntT, IntT) with IntT the integer type of the source,
\* so the arithmetic of the conversion is done in the source's type and
\* its result is then stored in the target's.

\* numerators of an `int` source handed to the converting constructor
MaxSourceNumerator == 150

\* The range of the signed type of that width, -2^(bits-1)..2^(bits-1)-1.
MaxOf(bits) == (2 ^ (bits - 2) - 1) * 2 + 1
MinOf(bits) == -MaxOf(bits) - 1
RangeOf(bits) == MinOf(bits)..MaxOf(bits)

\* Conversion of an int value to the signed type of that width, as every
\* build does it (modulo 2^bits).  For int8_t a product is computed in int
\* and converted back on assignment.
Narrow(bits, value) ==
  IF value \in RangeOf(bits) THEN value
  ELSE ((value - MinOf(bits)) % (2 ^ bits)) + MinOf(bits)

\* a % b is undefined in T
RemainderOverflows(bits, a, b) ==
  bits >= kIntBits /\ a = MinOf(bits) /\ b = -1

\* a % b (b # 0), where it is defined: the remainder has the sign of a.
Remainder(bits, a, b) ==
  IF b = MinOf(bits)
    THEN (IF a = b THEN 0 ELSE a)
    ELSE LET m == IF b < 0 THEN -b ELSE b
             r == a % m
         IN  IF a >= 0 \/ r = 0 THEN r ELSE r - m

\* -value is undefined in T
AbsOverflows(bits, value) == bits >= kIntBits /\ value = MinOf(bits)

\* abs<T>(value), where it is defined; -value of the least int8_t is 128
\* in int and is converted back to int8_t on return.
abs_typed(bits, value) ==
  IF value >= 0 THEN value
  ELSE IF value = MinOf(bits) THEN MinOf(bits)
  ELSE -value

\* gcd<T>(a, b) as a function, for operands on which no step of it
\* overflows T (every int8_t, and int away from INT_MIN).
RECURSIVE gcd_typed(_, _, _)
gcd_typed(bits, a, b) ==
  abs_typed(bits,
            IF 0 = b THEN a ELSE gcd_typed(bits, b, Remainder(bits, a, b)))

\* a * b is a value of the type (decided without forming the product)
MulFits(bits, a, b) ==
  IF a = 0 \/ b = 0 THEN TRUE
  ELSE IF a = MinOf(bits) THEN b = 1
  ELSE IF b = MinOf(bits) THEN a = 1
  ELSE LET x == abs_typed(bits, a)
           y == abs_typed(bits, b)
       IN  IF (a < 0) = (b < 0)
             THEN x <= MaxOf(bits) \div y
             ELSE \/ x <= MaxOf(bits) \div y
                  \/ (x = (MaxOf(bits) \div y) + 1 /\ MaxOf(bits) % y = y - 1)

\* a / b is a value of the type (b # 0)
DivFits(bits, a, b) == ~(a = MinOf(bits) /\ b = -1)

\* a / b (b # 0) where it is a value of the type: truncated toward zero.
Quotient(bits, a, b) ==
  IF b = MinOf(bits)
    THEN (IF a = b THEN 1 ELSE 0)
    ELSE LET m == IF b < 0 THEN -b ELSE b
             f == a \div m
             t == IF a >= 0 \/ a % m = 0 THEN f ELSE f + 1
         IN  IF b > 0 THEN t ELSE -t

\* some a % b evaluated by gcd<T>(a, b) is undefined in T
RECURSIVE gcd_remainder_overflows(_, _, _)
gcd_remainder_overflows(bits, a, b) ==
  /\ b # 0
  /\ \/ RemainderOverflows(bits, a, b)
     \/ gcd_remainder_overflows(bits, b, Remainder(bits, a, b))

\* gcd<T>(a, b) hands the least value of T to abs, whose -value is no
\* value of T: the least value then comes back through every abs above.
gcd_leaves_range(bits, a, b) == gcd_typed(bits, a, b) = MinOf(bits)

\* gcd<T>(a, b) has undefined behaviour: T is not promoted and an
\* operation of it overflows.
gcd_undefined(bits, a, b) ==
  /\ bits >= kIntBits
  /\ gcd_remainder_overflows(bits, a, b) \/ gcd_leaves_range(bits, a, b)

\* partial_division<IntT>(IntT, IntT) with IntT of the given width: the
\* quotients are computed in int and converted back to IntT.  `defined` is
\* FALSE when computing it has undefined behaviour.
partial_division_typed(bits, top_int, bottom_int) ==
  IF gcd_undefined(bits, top_int, bottom_int)
    THEN UndefinedDivision
    ELSE LET common_factor == gcd_typed(bits, top_int, bottom_int)
         IN  IF common_factor = 0
               THEN UndefinedDivision
               ELSE PartialDivisionResult(
                      Quotient(bits, top_int, common_factor),
                      Quotient(bits, bottom_int, common_factor))

\* The lambda of partial_division with IntT of the given width; the
\* product is computed in int and converted back to IntT.
partial_division_step_typed(bits, so_far, current_numerator) ==
  IF ~so_far.defined
    THEN UndefinedDivision
    ELSE LET current_result ==
               partial_division_typed(bits, current_numerator,
                                      so_far.remaining_divisor_)
         IN  IF ~current_result.defined
               THEN UndefinedDivision
               ELSE IF bits >= kIntBits
                         /\ ~MulFits(bits, current_result.partial_result_,
                                     so_far.partial_result_)
                 THEN UndefinedDivision
               ELSE PartialDivisionResult(
                      Narrow(bits, current_result.partial_result_
                                     * so_far.partial_result_),
                      current_result.remaining_divisor_)

RECURSIVE accumulate_typed(_, _, _)
accumulate_typed(bits, top_ints, so_far) ==
  IF top_ints = <<>>
    THEN so_far
    ELSE accumulate_typed(bits, Tail(top_ints),
           partial_division_step_typed(bits, so_far, Head(top_ints)))

partial_division_seq_typed(bits, top_ints, bottom_int) ==
  accumulate_typed(bits, top_ints, PartialDivisionResult(1, bottom_int))

\* std::accumulate(cbegin(top_ints), cend(top_ints), 1, std::multiplies):
\* the product of the numerators, formed in int.
RECURSIVE multiplies_accumulate(_, _)
multiplies_accumulate(top_ints, init) ==
  IF top_ints = <<>>
    THEN init
    ELSE multiplies_accumulate(Tail(top_ints), init * Head(top_ints))

\* forming that product overflows int
RECURSIVE multiplies_overflows(_, _)
multiplies_overflows(top_ints, init) ==
  /\ top_ints # <<>>
  /\ \/ ~MulFits(kIntBits, init, Head(top_ints))
     \/ multiplies_overflows(Tail(top_ints), init * Head(top_ints))

\* partial_division(const std::vector<IntT>&, IntT), overflow protections
\* skipped: the product is handed to partial_division(IntT, IntT).
partial_division_seq_skipping(bits, top_ints, bottom_int) ==
  IF multiplies_overflows(top_ints, 1)
    THEN UndefinedDivision
    ELSE partial_division_typed(
           bits, Narrow(bits, multiplies_accumulate(top_ints, 1)),
           bottom_int)

\* partial_division(const std::vector<IntT>&, IntT) as the build has it
partial_division_seq_built(skip, bits, top_ints, bottom_int) ==
  IF skip
    THEN partial_division_seq_skipping(bits, top_ints, bottom_int)
    ELSE partial_division_seq_typed(bits, top_ints, bottom_int)

\* A value computed by the fold of partial_division left the range of
\* IntT: a gcd of the least value, or a product of the reduced numerators.
RECURSIVE accumulate_leaves_range(_, _, _)
accumulate_leaves_range(bits, top_ints, so_far) ==
  /\ top_ints # <<>>
  /\ so_far.defined
  /\ LET current_result ==
           partial_division_typed(bits, Head(top_ints),
                                  so_far.remaining_divisor_)
     IN  \/ gcd_leaves_range(bits, Head(top_ints), so_far.remaining_divisor_)
         \/ /\ current_result.defined
            /\ ~MulFits(bits, current_result.partial_result_,
                        so_far.partial_result_)
         \/ accumulate_leaves_range(
              bits, Tail(top_ints),
              partial_division_step_typed(bits, so_far, Head(top_ints)))

\* A value computed by partial_division(top_ints, bottom_int) left the
\* range of IntT; with the protections skipped, the product did.
partial_division_seq_leaves_range(skip, bits, top_ints, bottom_int) ==
  IF skip
    THEN \/ multiplies_overflows(top_ints, 1)
         \/ multiplies_accumulate(top_ints, 1) \notin RangeOf(bits)
         \/ gcd_leaves_range(bits, multiplies_accumulate(top_ints, 1),
                             bottom_int)
    ELSE accumulate_leaves_range(bits, top_ints,
                                 PartialDivisionResult(1, bottom_int))

\* FixedRational<bits, D, doThrow>(IntT numerator, IntT denominator), IntT
\* of width int_bits: top is its numerator and bottom its denominator.
FixedRational_fraction_typed(bits, D, doThrow, int_bits, top, bottom) ==
  IF bottom = D
    THEN Returned(Narrow(bits, top))
    ELSE LET pd == partial_division_seq_typed(int_bits, <<top, D>>, bottom)
         IN  IF ~pd.defined THEN UndefinedInt
             ELSE IF doThrow /\ pd.remaining_divisor_ # 1
               THEN throw_error(Narrow(bits, pd.partial_result_),
                                Narrow(bits, pd.remaining_divisor_))
               ELSE LET whole == full_division(pd)
                    IN  IF whole.status = "returned"
                          THEN Returned(Narrow(bits, whole.value))
                          ELSE whole

\* FixedRational<bits, D, doThrow>(const FixedRational<other...>& other)
FixedRational_converting(bits, D, doThrow, bits_other, numerator_other, D_other) ==
  FixedRational_fraction_typed(bits, D, doThrow, bits_other,
                               numerator_other, D_other)

\* The numerators a source of each type is given.
SourceNumerators(bits) ==
  IF bits = kInt8Bits THEN RangeOf(kInt8Bits)
  ELSE (-MaxSourceNumerator)..MaxSourceNumerator

\* The numerators the object has when it is converted there and back.
RoundTripNumerators ==
  {MinOf(kInt8Bits), -100, -3, 0, 3, 100, MaxOf(kInt8Bits)}

ConvertOp(bits_other) ==
  IF bits_other = kInt8Bits THEN "FixedRational(int8_t other)"
  ELSE "FixedRational(int other)"

InitConvert ==
  /\ kDenominator \in Denominators
  /\ kDoThrowOnInexact \in BOOLEAN
  /\ SignedIntT \in IntTypes
  /\ numerator_ \in RoundTripNumerators
  /\ constructed_with = numerator_
  /\ net_increments = 0
  /\ result = NoResult
  /\ error = NoError
  /\ running_accumulation = 1
  /\ initial_accumulation = 1
  /\ folded = <<>>
  /\ frames = <<>>
  /\ direction = <<0, 0, 0>>
  /\ constructed_from = <<>>
  /\ pd_top_ints = <<>>
  /\ pd_bottom_int = 1
  /\ pd_returned = PartialDivisionResult(1, 1)
  /\ kSkipOverflowProtections = FALSE
  /\ left_range = FALSE

\* A temporary of the object's type made from a value of another
\* instantiation: result.l is the source's numerator, result.r its
\* denominator.
ConvertFromOther ==
  /\ result.status = "none"
  /\ \E bits_other \in IntTypes, D_other \in Denominators :
      \E numerator_other \in SourceNumerators(bits_other) :
        Call(ConvertOp(bits_other), numerator_other, D_other,
             FixedRational_converting(SignedIntT, kDenominator,
                                      kDoThrowOnInexact,
                                      bits_other, numerator_other, D_other))

\* The object converted to FixedRational<int, D2, doThrow2>, D2 a multiple
\* of its denominator, and that value converted back to the object's type.
ConvertThereAndBack ==
  \E D2 \in Denominators, doThrow2 \in BOOLEAN :
    /\ D2 % kDenominator = 0
    /\ LET there == FixedRational_converting(kIntBits, D2, doThrow2,
                       SignedIntT, numerator_, kDenominator)
       IN  Call("convert there and back", numerator_, D2,
                IF there.status = "returned"
                  THEN FixedRational_converting(
                         SignedIntT, kDenominator, kDoThrowOnInexact,
                         kIntBits, there.value, D2)
                  ELSE there)

NextConvert ==
  \/ EndStatement
  \/ ConvertFromOther
  \/ ConvertThereAndBack

SpecConvert == InitConvert /\ [][NextConvert]_vars

ConvertOps == {ConvertOp(bits) : bits \in IntTypes}

\* C14: converting a value n/D1 to the object's instantiation gives the
\* numerator n*D/D1 whenever D1 divides n*D and that numerator fits the
\* object's integer type, a throwing target raises exactly when D1 does
\* not divide n*D, and converting the object to a multiple of its
\* denominator and back returns its numerator.
C14_ConversionPreservesValue ==
  /\ result.op \in ConvertOps =>
       LET scaled == result.l * kDenominator
           exact == Divides(result.r, scaled)
       IN  /\ result.status \in {"returned", "threw"}
           /\ (exact /\ (scaled \div result.r) \in RangeOf(SignedIntT)) =>
                /\ result.status = "returned"
                /\ result.value * result.r = scaled
           /\ kDoThrowOnInexact => ((result.status = "threw") <=> ~exact)
           /\ ~kDoThrowOnInexact => result.status = "returned"
  /\ result.op = "convert there and back" =>
       result.status = "returned" /\ result.value = result.l

----------------------------------------------------------------------------
\* common_factor.hpp, call by call: gcd<T> as the recursion it is, in the
\* arithmetic of T.  An int8_t operand is promoted to int, so nothing
\* overflows before the result is converted back to T; in int itself
\* -INT_MIN and INT_MIN % -1 overflow, which is undefined behaviour.

\* operands handed to gcd, besides the extremes of the type
MaxGcdInput == 10

GcdInputs(bits) ==
  ((-MaxGcdInput)..MaxGcdInput) \cup {MinOf(bits)}
    \cup (IF bits = kInt8Bits THEN {MaxOf(bits)} ELSE {})

Frame(a, b) == [a |-> a, b |-> b]

Top == frames[Len(frames)]

Pop == SubSeq(frames, 1, Len(frames) - 1)

Running(a, b) ==
  [NoResult EXCEPT !.op = "gcd", !.l = a, !.r = b, !.status = "running"]

InitGcd ==
  /\ kDenominator = SweepDenominator
  /\ kDoThrowOnInexact = TRUE
  /\ SignedIntT \in IntTypes
  /\ numerator_ = 0
  /\ constructed_with = numerator_
  /\ net_increments = 0
  /\ result = NoResult
  /\ error = NoError
  /\ running_accumulation = 1
  /\ initial_accumulation = 1
  /\ folded = <<>>
  /\ frames = <<>>
  /\ direction = <<0, 0, 0>>
  /\ constructed_from = <<>>
  /\ pd_top_ints = <<>>
  /\ pd_bottom_int = 1
  /\ pd_returned = PartialDivisionResult(1, 1)
  /\ kSkipOverflowProtections = FALSE
  /\ left_range = FALSE

gcdFrame ==
  <<arithVars, errorVars, typeVars, error, direction, constructed_from,
    partialVars, left_range>>

\* gcd<T>(a, b) is called.
GcdCall ==
  /\ result.status = "none"
  /\ \E a \in GcdInputs(SignedIntT), b \in GcdInputs(SignedIntT) :
       /\ frames' = <<Frame(a, b)>>
       /\ result' = Running(a, b)
  /\ UNCHANGED gcdFrame

\* 0 == b is false: the call evaluates a % b and calls gcd<T>(b, a % b).
GcdRecurse ==
  /\ result.status = "running"
  /\ Top.b # 0
  /\ IF RemainderOverflows(SignedIntT, Top.a, Top.b)
       THEN \/ /\ result' = [result EXCEPT !.status = "crashed"]
               /\ UNCHANGED frames
            \/ /\ \E garbage \in GarbageInts :
                    frames' = Append(frames, Frame(Top.b, garbage))
               /\ UNCHANGED result
       ELSE /\ frames' = Append(frames,
                 Frame(Top.b, Remainder(SignedIntT, Top.a, Top.b)))
            /\ UNCHANGED result
  /\ UNCHANGED gcdFrame

\* A call leaves with abs(inner): `inner` is a when 0 == b, and else the
\* value the call it made has returned.
GcdLeave(inner) ==
  IF AbsOverflows(SignedIntT, inner)
    THEN \/ /\ result' = [result EXCEPT !.status = "crashed"]
            /\ UNCHANGED frames
         \/ /\ result' = [result EXCEPT
                             !.status = IF Len(frames) = 1 THEN "returned"
                                        ELSE "returning",
                             !.value = MinOf(SignedIntT)]
            /\ frames' = Pop
    ELSE /\ result' = [result EXCEPT
                          !.status = IF Len(frames) = 1 THEN "returned"
                                     ELSE "returning",
                          !.value = abs_typed(SignedIntT, inner)]
         /\ frames' = Pop

\* 0 == b: the innermost call returns abs(a).
GcdBase ==
  /\ result.status = "running"
  /\ Top.b = 0
  /\ GcdLeave(Top.a)
  /\ UNCHANGED gcdFrame

\* The call below has returned: this one returns abs of that value.
GcdUnwind ==
  /\ result.status = "returning"
  /\ GcdLeave(result.value)
  /\ UNCHANGED gcdFrame

NextGcd ==
  \/ EndStatement
  \/ GcdCall
  \/ GcdRecurse
  \/ GcdBase
  \/ GcdUnwind

SpecGcd == InitGcd /\ [][NextGcd]_vars

\* Every call that is made is run to its end.
FairSpecGcd ==
  /\ SpecGcd
  /\ WF_vars(GcdRecurse) /\ WF_vars(GcdBase) /\ WF_vars(GcdUnwind)

\* No common divisor of a and b (neither 0) exceeds the smaller magnitude;
\* the magnitude of the least value of the type is not a value of it.
Capped(x) == IF x < -MaxOf(SignedIntT) THEN MaxOf(SignedIntT) ELSE Magnitude(x)

SmallerMagnitude(a, b) ==
  IF Capped(a) < Capped(b) THEN Capped(a) ELSE Capped(b)

\* g is the greatest common divisor of |a| and |b|, by its definition.
IsGreatestCommonDivisor(g, a, b) ==
  /\ g >= 0
  /\ (a = 0 /\ b = 0) => g = 0
  /\ (a = 0 /\ b # 0) => (g = b \/ g + b = 0)
  /\ (a # 0 /\ b = 0) => (g = a \/ g + a = 0)
  /\ (a # 0 /\ b # 0) =>
       /\ g > 0
       /\ Divides(g, a) /\ Divides(g, b)
       /\ \A h \in (g + 1)..SmallerMagnitude(a, b) :
            ~(Divides(h, a) /\ Divides(h, b))

\* C15: for every pair (a, b) of the type's range gcd(a, b) returns a
\* non-negative value, the greatest common divisor of |a| and |b| (|a| when
\* b is 0, 0 when both are), which is the same for (b, a).
C15_GcdIsGreatestCommonDivisor ==
  result.op = "gcd" =>
    /\ result.status # "crashed"
    /\ result.status = "returned" =>
         /\ result.value >= 0
         /\ IsGreatestCommonDivisor(result.value, result.l, result.r)
         /\ IsGreatestCommonDivisor(result.value, result.r, result.l)

\* |x| < |y|
MagnitudeLess(x, y) ==
  IF y >= 0 THEN x < y /\ (x >= 0 \/ x + y > 0)
  ELSE x > y /\ (x <= 0 \/ x + y < 0)

\* C16: gcd(a, b) terminates for every pair of inputs: every call made
\* returns, and each recursive call has a second argument of strictly
\* smaller magnitude than the call that makes it.
C16_GcdTerminates ==
  /\ [](result.status = "running" => <>(result.status = "returned"))
  /\ [][Len(frames') > Len(frames) /\ frames # <<>> =>
          MagnitudeLess(frames'[Len(frames')].b, Top.b)]_vars

----------------------------------------------------------------------------
\* Direction.hpp: Direction<SignedIntT, kDimension>, kDimension the length
\* of `direction`.  The Direction is constructed once, then compared and
\* copied.

\* components handed to the constructor, besides the extremes of int8_t
MaxComponent == 5
\* the factors k of the Directions made from v and from k*v
MaxScale == 4

\* std::accumulate(begin, end, init, gcd)
RECURSIVE accumulate_gcd(_, _, _)
accumulate_gcd(bits, values, l_op) ==
  IF values = <<>> THEN l_op
  ELSE accumulate_gcd(bits, Tail(values),
                      gcd_typed(bits, l_op, Head(values)))

\* Direction::normalize(), as the array it leaves
normalize(bits, values) ==
  IF Len(values) = 0 THEN values
  ELSE IF Len(values) = 1
    THEN (IF values[1] > 0 THEN <<1>>
          ELSE IF values[1] < 0 THEN <<-1>>
          ELSE values)
    ELSE LET the_gcd == accumulate_gcd(bits, values, values[1])
         IN  IF the_gcd = 0 THEN values
             ELSE [i \in 1..Len(values) |-> CDiv(values[i], the_gcd)]

\* Direction(const std::array<SignedIntT, kDimension>&) and
\* Direction(const std::initializer_list<SignedIntT>&) of kDimension values
Direction_from(bits, values) == normalize(bits, values)

\* operator==(Direction) const
eq_direction(l_array, r_array) == ReturnedBool(l_array = r_array)

DirectionComponents(bits) ==
  ((-MaxComponent)..MaxComponent)
    \cup (IF bits = kInt8Bits THEN {MinOf(bits), MaxOf(bits)} ELSE {})

Arrays(bits) ==
  LET C == DirectionComponents(bits)
  IN  {<<x, y>> : x \in C, y \in C}
        \cup {<<x, y, z>> : x \in C, y \in C, z \in C}

Scaled(values, k) == [i \in 1..Len(values) |-> values[i] * k]

InitDirection ==
  /\ kDenominator = SweepDenominator
  /\ kDoThrowOnInexact = TRUE
  /\ SignedIntT \in IntTypes
  /\ numerator_ = 0
  /\ constructed_with = numerator_
  /\ net_increments = 0
  /\ result = NoResult
  /\ error = NoError
  /\ running_accumulation = 1
  /\ initial_accumulation = 1
  /\ folded = <<>>
  /\ frames = <<>>
  /\ direction = <<>>
  /\ constructed_from = <<>>
  /\ pd_top_ints = <<>>
  /\ pd_bottom_int = 1
  /\ pd_returned = PartialDivisionResult(1, 1)
  /\ kSkipOverflowProtections = FALSE
  /\ left_range = FALSE

directionFrame ==
  <<arithVars, errorVars, typeVars, error, frames, partialVars, left_range>>

\* Direction<SignedIntT, kDimension> d{values}
DirectionConstruct ==
  /\ result.status = "none"
  /\ constructed_from = <<>>
  /\ \E values \in Arrays(SignedIntT) :
       /\ direction' = Direction_from(SignedIntT, values)
       /\ constructed_from' = values
  /\ result' = [NoResult EXCEPT !.op = "Direction(values)",
                                !.status = "returned"]
  /\ UNCHANGED directionFrame

\* d = Direction<SignedIntT, kDimension>(d.get()): the copy is normalized
\* again.
DirectionReconstruct ==
  /\ result.status = "none"
  /\ constructed_from # <<>>
  /\ direction' = Direction_from(SignedIntT, direction)
  /\ result' = [NoResult EXCEPT !.op = "Direction(d.get())",
                                !.status = "returned"]
  /\ UNCHANGED <<directionFrame, constructed_from>>

\* values / k, when k divides every one of them
Unscaled(values, k) == [i \in 1..Len(values) |-> values[i] \div k]

\* d == Direction{v}, for a v of which the values d was made from are the
\* k-fold; result.l is k.
DirectionEquals ==
  /\ result.status = "none"
  /\ constructed_from # <<>>
  /\ \E k \in 1..MaxScale :
       LET v == Unscaled(constructed_from, k)
           o == eq_direction(direction, Direction_from(SignedIntT, v))
       IN  /\ Scaled(v, k) = constructed_from
           /\ result' = [NoResult EXCEPT !.op = "d==d", !.l = k,
                                         !.status = o.status,
                                         !.truth = o.truth]
  /\ UNCHANGED <<directionFrame, direction, constructed_from>>

NextDirection ==
  \/ EndStatement
  \/ DirectionConstruct
  \/ DirectionReconstruct
  \/ DirectionEquals

SpecDirection == InitDirection /\ [][NextDirection]_vars

AllZero(values) == \A i \in 1..Len(values) : values[i] = 0

\* No integer above 1 divides every component.
Coprime(values) ==
  \A h \in 2..(MaxOf(kInt8Bits) + 1) :
    \E i \in 1..Len(values) : ~Divides(h, values[i])

\* C17: a Direction constructed from integer components holds every
\* component divided by one positive integer, the greatest that divides
\* them all (so signs and proportions are kept), and an all-zero Direction
\* holds zeros.
C17_NormalizeDividesByGcd ==
  constructed_from # <<>> =>
    /\ Len(direction) = Len(constructed_from)
    /\ AllZero(constructed_from) => direction = constructed_from
    /\ ~AllZero(constructed_from) =>
         /\ \E g \in 1..(MaxOf(kInt8Bits) + 1) :
              Scaled(direction, g) = constructed_from
         /\ Coprime(direction)

\* C18: the components of a constructed Direction have gcd 1 unless all
\* are zero, Directions made from v and from k*v (k > 0) are equal under
\* ==, and normalizing a constructed Direction again changes nothing.
C18_RepresentationIsUnique ==
  /\ [](constructed_from # <<>> =>
          /\ AllZero(direction) \/ Coprime(direction)
          /\ result.op = "d==d" => result.truth)
  /\ [][constructed_from # <<>> => direction' = direction]_vars

----------------------------------------------------------------------------
\* partial_division and PartialDivisionResult on their own, in the
\* arithmetic of IntT.  An int8_t operand is promoted to int, so every
\* quotient and product is computed in int and converted back to IntT.

\* numerators and divisors handed to partial_division, besides the
\* extremes of int8_t
MaxFactor == 3
\* the longest vector of numerators handed to partial_division
MaxNumerators == 3

PartialInputs(bits) ==
  ((-MaxFactor)..MaxFactor)
    \cup (IF bits = kInt8Bits THEN {MinOf(bits), MaxOf(bits)} ELSE {})

Divisors(bits) == PartialInputs(bits) \ {0}

Vectors(bits) ==
  UNION {[1..n -> PartialInputs(bits)] : n \in 0..MaxNumerators}

\* PartialDivisionResult<IntT>::full_division; INT_MIN / -1 overflows int.
full_division_typed(bits, pd) ==
  IF pd.remaining_divisor_ = 0
       \/ (bits >= kIntBits /\ pd.partial_result_ = MinOf(bits)
             /\ pd.remaining_divisor_ = -1)
    THEN UndefinedInt
    ELSE Returned(Narrow(bits, Quotient(bits, pd.partial_result_,
                                        pd.remaining_divisor_)))

SingleForm == "partial_division(top_int, bottom_int)"
SequenceForm == "partial_division(top_ints, bottom_int)"

InitPartial ==
  /\ kDenominator = SweepDenominator
  /\ kDoThrowOnInexact = TRUE
  /\ SignedIntT \in IntTypes
  /\ numerator_ = 0
  /\ constructed_with = numerator_
  /\ net_increments = 0
  /\ result = NoResult
  /\ error = NoError
  /\ running_accumulation = 1
  /\ initial_accumulation = 1
  /\ folded = <<>>
  /\ frames = <<>>
  /\ direction = <<>>
  /\ constructed_from = <<>>
  /\ pd_top_ints = <<>>
  /\ pd_bottom_int = 1
  /\ pd_returned = PartialDivisionResult(1, 1)
  /\ kSkipOverflowProtections = FALSE
  /\ left_range = FALSE

partialFrame ==
  <<arithVars, errorVars, typeVars, error, frames, direction,
    constructed_from>>

\* partial_division(top_int, bottom_int)
PartialDivisionSingle ==
  /\ result.status = "none"
  /\ \E top_int \in PartialInputs(SignedIntT),
        bottom \in Divisors(SignedIntT) :
       /\ pd_top_ints' = <<top_int>>
       /\ pd_bottom_int' = bottom
       /\ pd_returned' = partial_division_typed(SignedIntT, top_int, bottom)
       /\ left_range' = gcd_leaves_range(SignedIntT, top_int, bottom)
  /\ result' = [NoResult EXCEPT !.op = SingleForm, !.status = "returned"]
  /\ UNCHANGED partialFrame

\* partial_division(top_ints, bottom_int)
PartialDivisionSequence ==
  /\ result.status = "none"
  /\ \E numerators \in Vectors(SignedIntT),
        bottom \in Divisors(SignedIntT) :
       /\ pd_top_ints' = numerators
       /\ pd_bottom_int' = bottom
       /\ pd_returned' =
            partial_division_seq_built(kSkipOverflowProtections,
                                       SignedIntT, numerators, bottom)
       /\ left_range' =
            partial_division_seq_leaves_range(kSkipOverflowProtections,
                                              SignedIntT, numerators, bottom)
  /\ result' = [NoResult EXCEPT !.op = SequenceForm, !.status = "returned"]
  /\ UNCHANGED partialFrame

\* the vector with two neighbours exchanged
Exchanged(values, i) ==
  [values EXCEPT ![i] = values[i + 1], ![i + 1] = values[i]]

\* partial_division(top_ints, bottom_int) again, on the same numerators in
\* another order and the same divisor
PartialDivisionReordered ==
  /\ result.op = SequenceForm
  /\ \E i \in 1..(Len(pd_top_ints) - 1) :
       /\ pd_top_ints' = Exchanged(pd_top_ints, i)
       /\ pd_returned' =
            partial_division_seq_built(kSkipOverflowProtections, SignedIntT,
                                       pd_top_ints', pd_bottom_int)
       /\ left_range' =
            partial_division_seq_leaves_range(kSkipOverflowProtections,
                                              SignedIntT, pd_top_ints',
                                              pd_bottom_int)
  /\ UNCHANGED <<pd_bottom_int, result, partialFrame>>

\* full_division() of the PartialDivisionResult returned
FullDivision ==
  /\ result.op \in {SingleForm, SequenceForm}
  /\ pd_returned.defined
  /\ \E o \in Resolve(full_division_typed(SignedIntT, pd_returned)) :
       result' = [op |-> "full_division()", l |-> result.l, r |-> result.r,
                  status |-> o.status, value |-> o.value,
                  second |-> o.second, truth |-> o.truth]
  /\ UNCHANGED <<partialVars, partialFrame, left_range>>

NextPartial ==
  \/ PartialDivisionSingle
  \/ PartialDivisionSequence
  \/ PartialDivisionReordered
  \/ FullDivision

SpecPartial == InitPartial /\ [][NextPartial]_vars

----------------------------------------------------------------------------
\* Claims about partial_division.

RECURSIVE Product(_)
Product(values) ==
  IF values = <<>> THEN 1 ELSE Head(values) * Product(Tail(values))

\* The product of the numerators is a value of IntT.
ProductRepresentable == Product(pd_top_ints) \in RangeOf(SignedIntT)

\* C19: for a PartialDivisionResult that partial_division (either form)
\* returned for a nonzero divisor, full_division() is the exact quotient of
\* the numerator (or the product of the numerators, when that is a value
\* of IntT) by the divisor if and only if remaining_divisor_ == 1.
C19_FullDivisionExactIffRemainingIsOne ==
  (result.op = "full_division()" /\ result.status = "returned"
     /\ ProductRepresentable) =>
    ((result.value * pd_bottom_int = Product(pd_top_ints))
       <=> (pd_returned.remaining_divisor_ = 1))

\* C20: the sequence form of partial_division returns, for a nonzero
\* divisor d and numerators whose product P is a value of IntT, the pair
\* (P/g, d/g) with g the greatest common divisor of P and d, and the same
\* pair for the same numerators in any other order.
C20_SequenceFormIsOrderIndependent ==
  /\ []((result.op = SequenceForm /\ ProductRepresentable) =>
          LET P == Product(pd_top_ints)
              g == gcd(P, pd_bottom_int)
          IN  pd_returned =
                PartialDivisionResult(CDiv(P, g), CDiv(pd_bottom_int, g)))
  /\ [][(result.op = SequenceForm /\ result'.op = SequenceForm
           /\ pd_bottom_int' = pd_bottom_int)
          => pd_returned' = pd_returned]_vars

----------------------------------------------------------------------------
\* Claims about divisions by zero and about the fix factor, for the
\* operations of Spec.

\* The call evaluated an integer division or remainder with a zero divisor.
DividedByZero(outcome) ==
  outcome.status \in {"undefined_int", "undefined_bool", "undefined_error"}

MixedOrderingOps ==
  {"r<i", "i<r", "r>i", "i>r", "r<=i", "i<=r", "r>=i", "i>=r"}

\* What the mixed comparison last called does with its operands.
MixedOrderingCall ==
  CASE result.op = "r<i" -> less_rat_int(kDenominator, result.l, result.r)
    [] result.op = "i<r" -> less_int_rat(kDenominator, result.l, result.r)
    [] result.op = "r>i" -> greater_rat_int(kDenominator, result.l, result.r)
    [] result.op = "i>r" -> greater_int_rat(kDenominator, result.l, result.r)
    [] result.op = "r<=i" ->
         less_equal_rat_int(kDenominator, result.l, result.r)
    [] result.op = "i<=r" ->
         less_equal_int_rat(kDenominator, result.l, result.r)
    [] result.op = "r>=i" ->
         greater_equal_rat_int(kDenominator, result.l, result.r)
    [] OTHER -> greater_equal_int_rat(kDenominator, result.l, result.r)

\* C24: every mixed ordering comparison (<, >, <=, >= of a rational and an
\* integer, in both orders) returns a boolean and divides by zero nowhere,
\* for every numerator and every integer.
C24_MixedOrderingNeverDividesByZero ==
  result.op \in MixedOrderingOps =>
    /\ ~DividedByZero(MixedOrderingCall)
    /\ result.status = "returned"

\* C26: every violation raised by the fraction constructor, * or / carries
\* a fix factor of at least 2, whatever the operands.
C26_FixFactorAtLeastTwo ==
  (result.op \in RaisingOps /\ result.status = "threw") =>
    get_minimum_fix_factor(error) >= 2

\* What the division last called does with its operands.
DivisionCall ==
  CASE result.op = "r/i" ->
         div_rat_int(kDoThrowOnInexact, result.l, result.r)
    [] result.op = "i/r" ->
         div_int_rat(kDenominator, kDoThrowOnInexact, result.l, result.r)
    [] OTHER ->
         div_rat_rat(kDenominator, kDoThrowOnInexact, result.l, result.r)

\* C27: in throwing mode a division by the integer 0 or by a zero-valued
\* rational raises the violation, for every dividend, and divides by zero
\* nowhere.
C27_DivisionByZeroRaises ==
  (result.op \in DivisionOps /\ kDoThrowOnInexact /\ result.r = 0) =>
    /\ ~DividedByZero(DivisionCall)
    /\ result.status = "threw"

----------------------------------------------------------------------------
\* Claims about the order of the folds.

\* accumulate_fix_factor of violations carrying these fix factors, in order
RECURSIVE FoldAll(_, _)
FoldAll(running, factors) ==
  IF factors = <<>>
    THEN running
    ELSE FoldAll(accumulate_fix_factor(
                   [NoError EXCEPT !.minimum_fix_factor_ = Head(factors)],
                   running),
                 Tail(factors))

Orders(n) == {p \in [1..n -> 1..n] : \A i \in 1..n : \E j \in 1..n : p[j] = i}

\* C28: from a starting accumulator >= 1 the accumulator does not depend on
\* the order in which the violations were folded, and folding again a
\* violation that has been folded leaves it as it is.
C28_FoldIsCommutativeAndIdempotent ==
  initial_accumulation >= 1 =>
    /\ \A p \in Orders(Len(folded)) :
         FoldAll(initial_accumulation,
                 [i \in 1..Len(folded) |-> folded[p[i]]])
           = running_accumulation
    /\ \A i \in 1..Len(folded) :
         FoldAll(running_accumulation, <<folded[i]>>) = running_accumulation

----------------------------------------------------------------------------
\* The operators whose arithmetic can leave the range of IntT, in the
\* arithmetic of IntT: int8_t operands are promoted and nothing overflows
\* before a value is converted back; an int operation that overflows has
\* undefined behaviour.

\* numerators and integers handed to the operators, besides the extremes
\* of the type and the multiples of SweepDenominator
MaxTypedOperand == 6
\* the multiples of SweepDenominator handed to the operators
MaxMultiple == 10

Extremes(bits) ==
  {MinOf(bits), MinOf(bits) + 1, MaxOf(bits) - 1, MaxOf(bits)}

TypedNumerators(bits) ==
  {n \in ((-MaxTypedOperand)..MaxTypedOperand) \cup Extremes(bits)
            \cup {m * SweepDenominator : m \in (-MaxMultiple)..MaxMultiple} :
     n \in RangeOf(bits)}

\* the integers compared with the numerator l_num: those, and the integers
\* next to its value
TypedInts(bits, D, l_num) ==
  LET whole == Quotient(bits, l_num, D)
  IN  TypedNumerators(bits) \cup {whole - 1, whole, whole + 1}

\* r_op * kDenominator overflows int
scaling_undefined(bits, D, int_op) ==
  bits >= kIntBits /\ ~MulFits(bits, int_op, D)

\* operator==(FixedRational, IntT)
eq_rat_int_typed(bits, D, l_num, r_op) ==
  IF scaling_undefined(bits, D, r_op)
    THEN UndefinedBool
    ELSE ReturnedBool(l_num = r_op * D)

\* operator<(FixedRational, IntT), as the build has it
less_rat_int_built(skip, bits, D, l_num, r_op) ==
  IF skip
    THEN (IF scaling_undefined(bits, D, r_op)
            THEN UndefinedBool
            ELSE ReturnedBool(l_num < r_op * D))
  ELSE IF Quotient(bits, l_num, D) < r_op THEN ReturnedBool(TRUE)
  ELSE IF Quotient(bits, l_num, D) > r_op THEN ReturnedBool(FALSE)
  ELSE LET ret == partial_division_seq_typed(bits, <<r_op, D>>, l_num)
       IN  IF ~ret.defined THEN UndefinedBool
           ELSE ReturnedBool(ret.remaining_divisor_ < ret.partial_result_)

\* operator<(IntT, FixedRational), as the build has it
less_int_rat_built(skip, bits, D, l_op, r_num) ==
  IF skip
    THEN (IF scaling_undefined(bits, D, l_op)
            THEN UndefinedBool
            ELSE ReturnedBool(l_op * D < r_num))
  ELSE IF l_op < Quotient(bits, r_num, D) THEN ReturnedBool(TRUE)
  ELSE IF l_op > Quotient(bits, r_num, D) THEN ReturnedBool(FALSE)
  ELSE LET ret == partial_division_seq_typed(bits, <<l_op, D>>, r_num)
       IN  IF ~ret.defined THEN UndefinedBool
           ELSE ReturnedBool(ret.partial_result_ < ret.remaining_divisor_)

\* A value computed by the mixed operator< left the range of IntT.
less_leaves_range(skip, bits, D, num, int_op) ==
  IF skip
    THEN ~MulFits(bits, int_op, D)
    ELSE /\ Quotient(bits, num, D) = int_op
         /\ partial_division_seq_leaves_range(FALSE, bits, <<int_op, D>>, num)

\* throw unrepresentable_operation_error<IntT>{what, numerator, divisor},
\* IntT of the given width
throw_error_typed(bits, operation_numerator, operation_divisor) ==
  IF \/ gcd_undefined(bits, operation_numerator, operation_divisor)
     \/ gcd_typed(bits, operation_numerator, operation_divisor) = 0
    THEN UndefinedError(operation_numerator, operation_divisor)
    ELSE Threw([thrown |-> TRUE,
                operation_numerator |-> operation_numerator,
                operation_divisor |-> operation_divisor,
                minimum_fix_factor_ |->
                  Quotient(bits, operation_divisor,
                           gcd_typed(bits, operation_numerator,
                                     operation_divisor))])

\* The multiplication with the product of the numerators formed in IntT
\* before it is divided, whatever the build.
mul_rat_rat_product_first(skip, bits, D, doThrow, l_num, r_num) ==
  LET pd == partial_division_seq_skipping(bits, <<l_num, r_num>>, D)
  IN  IF ~pd.defined
        THEN UndefinedInt
        ELSE IF doThrow /\ pd.remaining_divisor_ # 1
          THEN throw_error_typed(bits, pd.partial_result_,
                                 pd.remaining_divisor_)
          ELSE full_division_typed(bits, pd)

\* operator*(FixedRational, FixedRational)
mul_rat_rat_typed(skip, bits, D, doThrow, l_num, r_num) ==
  LET pd == partial_division_seq_built(skip, bits, <<l_num, r_num>>, D)
  IN  IF ~pd.defined
        THEN UndefinedInt
        ELSE IF doThrow /\ pd.remaining_divisor_ # 1
          THEN throw_error_typed(bits, pd.partial_result_,
                                 pd.remaining_divisor_)
          ELSE full_division_typed(bits, pd)

\* A value computed by operator*(FixedRational, FixedRational) left the
\* range of IntT.
mul_rat_rat_leaves_range(skip, bits, D, l_num, r_num) ==
  LET pd == partial_division_seq_built(skip, bits, <<l_num, r_num>>, D)
  IN  \/ partial_division_seq_leaves_range(skip, bits, <<l_num, r_num>>, D)
      \/ /\ pd.defined
         /\ ~DivFits(bits, pd.partial_result_, pd.remaining_divisor_)

\* A call on temporaries, with the record of whether a value left the
\* range of IntT.
TypedCall(op, l, r, outcome, leaves) ==
  /\ result.status = "none"
  /\ \E o \in Resolve(outcome) :
       /\ result' = [op |-> op, l |-> l, r |-> r, status |-> o.status,
                     value |-> o.value, second |-> o.second,
                     truth |-> o.truth]
       /\ error' = o.error
  /\ left_range' = leaves
  /\ UNCHANGED <<arithVars, errorVars, typeVars, frames, direction,
                 constructed_from, partialVars>>

InitOverflow ==
  /\ kDenominator \in Denominators
  /\ kDoThrowOnInexact \in BOOLEAN
  /\ SignedIntT \in IntTypes
  /\ kSkipOverflowProtections = FALSE
  /\ numerator_ = 0
  /\ constructed_with = numerator_
  /\ net_increments = 0
  /\ result = NoResult
  /\ error = NoError
  /\ running_accumulation = 1
  /\ initial_accumulation = 1
  /\ folded = <<>>
  /\ frames = <<>>
  /\ direction = <<>>
  /\ constructed_from = <<>>
  /\ pd_top_ints = <<>>
  /\ pd_bottom_int = 1
  /\ pd_returned = PartialDivisionResult(1, 1)
  /\ left_range = FALSE

\* FixedRational{l} * FixedRational{r}, l and r the numerators
MulRatRatTyped ==
  /\ result.status = "none"
  /\ \E l_num \in TypedNumerators(SignedIntT),
        r_num \in TypedNumerators(SignedIntT) :
       TypedCall("r*r", l_num, r_num,
                 mul_rat_rat_typed(kSkipOverflowProtections, SignedIntT,
                                   kDenominator, kDoThrowOnInexact,
                                   l_num, r_num),
                 mul_rat_rat_leaves_range(kSkipOverflowProtections, SignedIntT,
                                          kDenominator, l_num, r_num))

LessRatIntTyped ==
  /\ result.status = "none"
  /\ \E l_num \in TypedNumerators(SignedIntT) :
       \E r_op \in TypedInts(SignedIntT, kDenominator, l_num) :
         TypedCall("r<i", l_num, r_op,
                   less_rat_int_built(kSkipOverflowProtections, SignedIntT,
                                      kDenominator, l_num, r_op),
                   less_leaves_range(kSkipOverflowProtections, SignedIntT,
                                     kDenominator, l_num, r_op))

LessIntRatTyped ==
  /\ result.status = "none"
  /\ \E r_num \in TypedNumerators(SignedIntT) :
       \E l_op \in TypedInts(SignedIntT, kDenominator, r_num) :
         TypedCall("i<r", l_op, r_num,
                   less_int_rat_built(kSkipOverflowProtections, SignedIntT,
                                      kDenominator, l_op, r_num),
                   less_leaves_range(kSkipOverflowProtections, SignedIntT,
                                     kDenominator, r_num, l_op))

Flag(t) == IF t THEN 1 ELSE 0

\* The caller evaluates r < k, r == k and k < r on the same operands:
\* `value` is 1 when r < k held, `truth` is r == k, `second` is 1 when
\* k < r held.
CompareThreeWays ==
  /\ result.status = "none"
  /\ \E l_num \in TypedNumerators(SignedIntT) :
       \E r_op \in TypedInts(SignedIntT, kDenominator, l_num) :
         \E less \in Resolve(less_rat_int_built(
                               kSkipOverflowProtections, SignedIntT,
                               kDenominator, l_num, r_op)),
            equal \in Resolve(eq_rat_int_typed(SignedIntT, kDenominator,
                                               l_num, r_op)),
            greater \in Resolve(less_int_rat_built(
                                  kSkipOverflowProtections, SignedIntT,
                                  kDenominator, r_op, l_num)) :
           result' = [op |-> "r<i, r==i, i<r", l |-> l_num, r |-> r_op,
                      status |->
                        IF {less.status, equal.status, greater.status}
                             = {"returned"}
                          THEN "returned" ELSE "crashed",
                      value |-> Flag(less.truth),
                      second |-> Flag(greater.truth),
                      truth |-> equal.truth]
  /\ left_range' = FALSE
  /\ UNCHANGED <<arithVars, errorVars, typeVars, error, frames, direction,
                 constructed_from, partialVars>>

NextOverflow ==
  \/ MulRatRatTyped
  \/ LessRatIntTyped
  \/ LessIntRatTyped
  \/ CompareThreeWays

SpecOverflow == InitOverflow /\ [][NextOverflow]_vars

----------------------------------------------------------------------------
\* Claims about overflow.

\* C21: with the protections on, when D divides p*q and p, q and p*q/D are
\* values of IntT, the product of the rationals with numerators p and q is
\* returned with numerator p*q/D and no value computed on the way leaves
\* the range of IntT, whether or not p*q is a value of IntT.  (The model
\* forms p*q itself where it fits int.)
C21_ProductAvoidsOverflow ==
  (/\ result.op = "r*r" /\ ~kSkipOverflowProtections
   /\ MulFits(kIntBits, result.l, result.r)
   /\ Divides(kDenominator, result.l * result.r)
   /\ (result.l * result.r) \div kDenominator \in RangeOf(SignedIntT)) =>
    /\ result.status = "returned"
    /\ result.value * kDenominator = result.l * result.r
    /\ ~left_range

\* C21 witness: an exact product was returned whose p*q is no value of IntT.
C21_Witness ==
  /\ result.op = "r*r" /\ ~kSkipOverflowProtections
  /\ result.status = "returned"
  /\ MulFits(kIntBits, result.l, result.r)
  /\ result.l * result.r \notin RangeOf(SignedIntT)
  /\ Divides(kDenominator, result.l * result.r)
  /\ result.value * kDenominator = result.l * result.r
  /\ result.value < 0

\* n < k*D and k*D < n, for D > 0, without forming k*D
BelowScaled(n, k, D) == n \div D < k
AboveScaled(n, k, D) == n \div D > k \/ (n \div D = k /\ n % D # 0)

\* C22: with the protections on, r < k and k < r return the order of the
\* true values for every numerator n and every integer k of IntT, and no
\* value computed on the way leaves the range of IntT.
C22_MixedOrderingAvoidsOverflow ==
  (result.op \in {"r<i", "i<r"} /\ ~kSkipOverflowProtections) =>
    /\ result.status = "returned"
    /\ result.op = "r<i" =>
         result.truth = BelowScaled(result.l, result.r, kDenominator)
    /\ result.op = "i<r" =>
         result.truth = AboveScaled(result.r, result.l, kDenominator)
    /\ ~left_range

\* C25: for every rational r and every integer k of IntT exactly one of
\* r < k, r == k and k < r is true.
C25_Trichotomy ==
  result.op = "r<i, r==i, i<r" =>
    /\ result.status = "returned"
    /\ Cardinality({c \in {"<", "==", ">"} :
                      \/ c = "<" /\ result.value = 1
                      \/ c = "==" /\ result.truth
                      \/ c = ">" /\ result.second = 1}) = 1

----------------------------------------------------------------------------
\* The two builds of the header, with and without
\* RATIONAL_GEOMETRY_SKIP_OVERFLOW_PROTECTIONS, side by side.

InitBuilds ==
  /\ kDenominator = SweepDenominator
  /\ kDoThrowOnInexact = TRUE
  /\ SignedIntT \in IntTypes
  /\ kSkipOverflowProtections \in BOOLEAN
  /\ numerator_ = 0
  /\ constructed_with = numerator_
  /\ net_increments = 0
  /\ result = NoResult
  /\ error = NoError
  /\ running_accumulation = 1
  /\ initial_accumulation = 1
  /\ folded = <<>>
  /\ frames = <<>>
  /\ direction = <<>>
  /\ constructed_from = <<>>
  /\ pd_top_ints = <<>>
  /\ pd_bottom_int = 1
  /\ pd_returned = PartialDivisionResult(1, 1)
  /\ left_range = FALSE

NextBuilds ==
  \/ PartialDivisionSequence
  \/ LessRatIntTyped
  \/ LessIntRatTyped

SpecBuilds == InitBuilds /\ [][NextBuilds]_vars

\* What the other build returns for the comparison last called, and
\* whether a value leaves the range of IntT in it.
OtherBuildLess ==
  IF result.op = "r<i"
    THEN less_rat_int_built(~kSkipOverflowProtections, SignedIntT,
                            kDenominator, result.l, result.r)
    ELSE less_int_rat_built(~kSkipOverflowProtections, SignedIntT,
                            kDenominator, result.l, result.r)

OtherBuildLessLeavesRange ==
  IF result.op = "r<i"
    THEN less_leaves_range(~kSkipOverflowProtections, SignedIntT,
                           kDenominator, result.l, result.r)
    ELSE less_leaves_range(~kSkipOverflowProtections, SignedIntT,
                           kDenominator, result.r, result.l)

\* C23: when no value leaves the range of IntT in either build, the
\* sequence form of partial_division returns the same PartialDivisionResult
\* with the protections on and with them skipped, and the mixed operator<
\* returns the same boolean.
C23_BuildsAreEquivalent ==
  /\ (/\ result.op = SequenceForm /\ ~left_range
      /\ ~partial_division_seq_leaves_range(
            ~kSkipOverflowProtections, SignedIntT, pd_top_ints,
            pd_bottom_int)) =>
       pd_returned =
         partial_division_seq_built(~kSkipOverflowProtections, SignedIntT,
                                    pd_top_ints, pd_bottom_int)
  /\ (/\ result.op \in {"r<i", "i<r"} /\ ~left_range
      /\ ~OtherBuildLessLeavesRange) =>
       /\ result.status = "returned"
       /\ OtherBuildLess.status = "returned"
       /\ OtherBuildLess.truth = result.truth

====
